---- MODULE Spec2Model ----
(***************************************************************************)
(* Reduction primitive-expression builders of cinn/hlir/pe/reduction.cc:   *)
(* GetRealAxes, GetOutputShape, DoReduce (with its per-index compute       *)
(* function), the Reduce facade, the four named reductions and WarpReduce. *)
(*                                                                         *)
(* Sizes are compile-time integer constants.  A reduction variable is      *)
(* identified by its position in reduce_axes (UniqName gives each one a    *)
(* distinct name) and carries the extent it was built with.  Sequences are *)
(* 1-based here; every axis, cursor and index keeps the 0-based value it   *)
(* has in the source.                                                      *)
(***************************************************************************)
EXTENDS Integers, Sequences, FiniteSets, TLC

\* ---------------------------------------------------------------- bounds
MaxRank == 2
MaxWarpRank == 3
MaxDim == 2
MaxAxes == 3
MaxInitial == 2
LoopCap == 2

\* ------------------------------------------------------- program constants
WarpSize == 32

\* size_t arithmetic is modulo 2^w; TLC integers are 32-bit, so the modulus
\* is scaled to 2^30, far above every size and counter of the model.
SizeModulus == 2 ^ 30

VARIABLES
  pc,                  \* position in the call being modelled
  err,                 \* fatal condition raised, "" if none
  op,                  \* named operation called
  shape,               \* tensor->shape / A->shape
  axes,                \* raw axes argument
  keep_dims,
  caller_initial,      \* the initial argument of the named reduction
  fn,                  \* accumulation function handed to Reduce
  initial,             \* initial handed to Reduce / DoReduce
  real_axes,
  output_shapes,
  squeeze_axes,
  reduce_axes,         \* extent of each allocated reduction variable
  C,                   \* TRUE once Compute has built the output tensor
  indices,             \* output index tuple the compute function is applied to
  eval_indice,
  indice_cnt,
  reduce_cnt,
  fold_count,          \* number of points of the fold domain
  value,               \* value denoted at indices
  last_reduce_dim_num,
  reduce_type,
  idx,                 \* loop counter of the lane loop
  lane,
  iters,               \* iterations of the lane loop executed
  shape_reads,         \* indices at which the lane loop read A->shape
  tmp_shape,
  out_shape,
  which,               \* compute function last applied: "", "tmp_out", "out"
  indexs,
  tmp_indexs,
  call                 \* arguments of the intrinsic call at indexs

inVars == <<op, shape, axes, keep_dims, caller_initial>>
redVars == <<fn, initial, real_axes, output_shapes, squeeze_axes, reduce_axes, C>>
cmpVars == <<indices, eval_indice, indice_cnt, reduce_cnt, fold_count, value>>
warpIn == <<last_reduce_dim_num>>
warpVars == <<reduce_type, idx, lane, iters, shape_reads, tmp_shape, out_shape>>
warpCmp == <<which, indexs, tmp_indexs, call>>
vars == <<pc, err, inVars, redVars, cmpVars, warpIn, warpVars, warpCmp>>

\* ---------------------------------------------------------------- values
Undefined == [defined |-> FALSE, v |-> 0]
Const(n) == [defined |-> TRUE, v |-> n]
NoCall == [offset |-> 0, lane |-> 0]

\* a dimension is of size 1 or of a larger size
DimSizes == {1, MaxDim}
Shapes(lo, hi) == UNION {[1..n -> DimSizes] : n \in lo..hi}
AxisValues(ndim) == (0 - (ndim + 1))..(ndim + 1)
AxisLists(ndim, len) == UNION {[1..m -> AxisValues(ndim)] : m \in 0..len}
Initials == {Undefined} \cup {Const(n) : n \in 0..MaxInitial}

\* what an out-of-bounds read of tensor->shape may hold, and what an
\* out-of-bounds element of the input may hold
GarbageExtents == {0, MaxDim + 1}
GarbageElems == {0, 4}

RECURSIVE IndexTuples(_)
IndexTuples(s) ==
  IF s = <<>> THEN {<<>>}
  ELSE {<<h>> \o t : h \in 0..(Head(s) - 1), t \in IndexTuples(Tail(s))}

\* std::find(v.begin(), v.end(), x) != v.end()
Contains(v, x) == \E j \in DOMAIN v : v[j] = x

\* --------------------------------------------------------- GetRealAxes
AdjustAxis(ndim, axis) == IF axis < 0 THEN axis + ndim ELSE axis

AxisCheckStrict(ndim, axis) == axis < ndim /\ axis >= 0
AxisCheck(ndim, axis) == axis <= ndim /\ axis >= 0

GetRealAxesFails(ndim, raw) ==
  \E i \in DOMAIN raw : ~AxisCheck(ndim, AdjustAxis(ndim, raw[i]))

RECURSIVE StdUnique(_)
StdUnique(s) ==
  IF Len(s) <= 1 THEN s
  ELSE LET r == StdUnique(Tail(s))
       IN IF Head(s) = Head(r) THEN r ELSE <<Head(s)>> \o r

RECURSIVE SortInsert(_, _)
SortInsert(x, s) ==
  IF s = <<>> THEN <<x>>
  ELSE IF x <= Head(s) THEN <<x>> \o s
  ELSE <<Head(s)>> \o SortInsert(x, Tail(s))

RECURSIVE StdSort(_)
StdSort(s) == IF s = <<>> THEN s ELSE SortInsert(Head(s), StdSort(Tail(s)))

GetRealAxes(ndim, raw) ==
  IF raw = <<>> THEN [i \in 1..ndim |-> i - 1]
  ELSE StdSort(StdUnique([i \in DOMAIN raw |-> AdjustAxis(ndim, raw[i])]))

\* -------------------------------------------------------- GetOutputShape
RECURSIVE NonReducedSizes(_, _, _)
NonReducedSizes(raxes, shp, i) ==
  IF i >= Len(shp) THEN <<>>
  ELSE (IF ~Contains(raxes, i) THEN <<shp[i + 1]>> ELSE <<>>)
       \o NonReducedSizes(raxes, shp, i + 1)

GetOutputShape(raxes, shp, keep) ==
  LET s == IF keep
           THEN [i \in 1..Len(shp) |-> IF Contains(raxes, i - 1) THEN 1 ELSE shp[i]]
           ELSE NonReducedSizes(raxes, shp, 0)
  IN IF s = <<>> THEN <<1>> ELSE s

\* -------------------------------------------------------------- DoReduce
\* reduce_axes.push_back(Var(tensor->shape[axis], name)); g stands for the
\* content of the out-of-bounds location tensor->shape[ndim]
ReduceVars(shp, raxes, g) ==
  [j \in DOMAIN raxes |->
     IF raxes[j] < Len(shp) THEN shp[raxes[j] + 1] ELSE g]

ReadsPastShape(shp, raxes) == \E j \in DOMAIN raxes : raxes[j] >= Len(shp)

IndiceAdvanceAlways(squeeze_i) == 1
IndiceAdvance(squeeze_i) == IF squeeze_i THEN 0 ELSE 1

RECURSIVE ComputeLoop(_, _, _, _, _)
ComputeLoop(ndim, raxes, sqz, i, st) ==
  IF i >= ndim THEN st
  ELSE LET squeeze_i == Contains(sqz, i)
       IN IF Contains(raxes, i)
          THEN ComputeLoop(ndim, raxes, sqz, i + 1,
                 [eval |-> Append(st.eval, [kind |-> "reduce", n |-> st.reduce_cnt]),
                  reduce_cnt |-> st.reduce_cnt + 1,
                  indice_cnt |-> st.indice_cnt + IndiceAdvance(squeeze_i)])
          ELSE ComputeLoop(ndim, raxes, sqz, i + 1,
                 [eval |-> Append(st.eval, [kind |-> "indice", n |-> st.indice_cnt]),
                  reduce_cnt |-> st.reduce_cnt,
                  indice_cnt |-> st.indice_cnt + 1])

ComputeStart == [eval |-> <<>>, reduce_cnt |-> 0, indice_cnt |-> 0]

\* ------------------------------------------- denotation of the reduction
RECURSIVE IndiceToAbsOffset(_, _)
IndiceToAbsOffset(shp, ind) ==
  IF shp = <<>> THEN 0
  ELSE LET n == Len(shp)
       IN IndiceToAbsOffset(SubSeq(shp, 1, n - 1), SubSeq(ind, 1, n - 1)) * shp[n]
          + ind[n]

\* content of the input tensor
Elem(shp, ind) == 1 + (IndiceToAbsOffset(shp, ind) % 3)

InShape(shp, ind) == \A i \in DOMAIN shp : ind[i] >= 0 /\ ind[i] < shp[i]

\* tensor(eval_indice) at one point of the fold domain
InputIndex(eval, ind, point) ==
  [i \in DOMAIN eval |->
     IF eval[i].kind = "reduce"
     THEN (IF eval[i].n + 1 \in DOMAIN point THEN point[eval[i].n + 1] ELSE 0 - 1)
     ELSE (IF eval[i].n + 1 \in DOMAIN ind THEN ind[eval[i].n + 1] ELSE 0 - 1)]

Max2(a, b) == IF a >= b THEN a ELSE b
Min2(a, b) == IF a <= b THEN a ELSE b

Combine(f, a, b) ==
  CASE f = "ReduceSum" -> a + b
    [] f = "ReduceMul" -> a * b
    [] f = "ReduceMax" -> Max2(a, b)
    [] OTHER -> Min2(a, b)

RECURSIVE FoldFrom(_, _, _, _)
FoldFrom(f, acc, pts, el) ==
  IF pts = {} THEN acc
  ELSE LET p == CHOOSE x \in pts : TRUE
       IN FoldFrom(f, Combine(f, acc, el[p]), pts \ {p}, el)

\* fn(tensor(eval_indice), reduce_axes, initial): the fold of the elements
\* el[p] over the points p of the fold domain; g is returned where the fold
\* has neither a seed nor an element
Fold(f, init, pts, el, g) ==
  IF init.defined THEN FoldFrom(f, init.v, pts, el)
  ELSE IF pts = {} THEN g
  ELSE LET p == CHOOSE x \in pts : TRUE
       IN FoldFrom(f, el[p], pts \ {p}, el)

\* ------------------------------------------------------------ Reduce family
DefaultCallState ==
  /\ err = ""
  /\ fn = "" /\ initial = Undefined
  /\ real_axes = <<>> /\ output_shapes = <<>> /\ squeeze_axes = <<>>
  /\ reduce_axes = <<>> /\ C = FALSE
  /\ indices = <<>> /\ eval_indice = <<>> /\ indice_cnt = 0 /\ reduce_cnt = 0
  /\ fold_count = 0 /\ value = 0
  /\ reduce_type = "" /\ idx = 0 /\ lane = 1 /\ iters = 0 /\ shape_reads = {}
  /\ tmp_shape = <<>> /\ out_shape = <<>>
  /\ which = "" /\ indexs = <<>> /\ tmp_indexs = <<>> /\ call = NoCall

ReduceInit ==
  /\ pc = "call"
  /\ op = "ReduceSum"
  /\ caller_initial = Undefined
  /\ shape \in Shapes(0, MaxRank)
  /\ axes \in AxisLists(Len(shape), MaxAxes)
  /\ keep_dims \in BOOLEAN
  /\ last_reduce_dim_num = 0
  /\ DefaultCallState

NamedInit ==
  /\ pc = "call"
  /\ op \in {"ReduceSum", "ReduceProd", "ReduceMax", "ReduceMin"}
  /\ caller_initial \in Initials
  /\ shape \in Shapes(0, MaxRank)
  /\ axes \in AxisLists(Len(shape), 1)
  /\ keep_dims \in BOOLEAN
  /\ last_reduce_dim_num = 0
  /\ DefaultCallState

EnterReduce(f, init) ==
  /\ pc = "call"
  /\ fn' = f
  /\ initial' = init
  /\ pc' = "Reduce"
  /\ UNCHANGED <<err, inVars, real_axes, output_shapes, squeeze_axes, reduce_axes, C,
                 cmpVars, warpIn, warpVars, warpCmp>>

ReduceSum ==
  /\ op = "ReduceSum"
  /\ EnterReduce("ReduceSum", IF ~caller_initial.defined THEN Const(0) ELSE caller_initial)

ReduceProd ==
  /\ op = "ReduceProd"
  /\ EnterReduce("ReduceMul", IF ~caller_initial.defined THEN Const(1) ELSE caller_initial)

ReduceMax ==
  /\ op = "ReduceMax"
  /\ EnterReduce("ReduceMax", Undefined)

ReduceMin ==
  /\ op = "ReduceMin"
  /\ EnterReduce("ReduceMin", Undefined)

\* Reduce up to and including the call of GetRealAxes
Reduce ==
  /\ pc = "Reduce"
  /\ LET ndim == Len(shape)
     IN IF ~(ndim > 0)
        THEN /\ err' = "InvalidRank" /\ pc' = "failed"
             /\ UNCHANGED real_axes
        ELSE IF GetRealAxesFails(ndim, axes)
        THEN /\ err' = "InvalidAxis" /\ pc' = "failed"
             /\ UNCHANGED real_axes
        ELSE /\ real_axes' = GetRealAxes(ndim, axes)
             /\ pc' = "GetOutputShape"
             /\ UNCHANGED err
  /\ UNCHANGED <<inVars, fn, initial, output_shapes, squeeze_axes, reduce_axes, C,
                 cmpVars, warpIn, warpVars, warpCmp>>

ReduceShape ==
  /\ pc = "GetOutputShape"
  /\ output_shapes' = GetOutputShape(real_axes, shape, keep_dims)
  /\ squeeze_axes' = IF keep_dims THEN <<>> ELSE real_axes
  /\ pc' = "DoReduce"
  /\ UNCHANGED <<err, inVars, fn, initial, real_axes, reduce_axes, C,
                 cmpVars, warpIn, warpVars, warpCmp>>

\* DoReduce: allocation of the reduction variables and Compute(...)
DoReduce ==
  /\ pc = "DoReduce"
  /\ IF ReadsPastShape(shape, real_axes)
     THEN \/ /\ err' = "OutOfBoundsRead" /\ pc' = "crashed"
             /\ UNCHANGED <<reduce_axes, C>>
          \/ \E g \in GarbageExtents :
               /\ reduce_axes' = ReduceVars(shape, real_axes, g)
               /\ C' = TRUE /\ pc' = "built"
               /\ UNCHANGED err
     ELSE /\ reduce_axes' = ReduceVars(shape, real_axes, 0)
          /\ C' = TRUE /\ pc' = "built"
          /\ UNCHANGED err
  /\ UNCHANGED <<inVars, fn, initial, real_axes, output_shapes, squeeze_axes,
                 cmpVars, warpIn, warpVars, warpCmp>>

\* the compute lambda of DoReduce applied to one output index tuple
Compute ==
  /\ pc = "built"
  /\ \E ind \in IndexTuples(output_shapes), g \in GarbageElems :
       LET st == ComputeLoop(Len(shape), real_axes, squeeze_axes, 0, ComputeStart)
           \* the fold domain: one value below its extent per variable
           pts == IndexTuples(reduce_axes)
           el == [p \in pts |->
                    LET rd == InputIndex(st.eval, ind, p)
                    IN IF InShape(shape, rd) THEN Elem(shape, rd) ELSE g]
       IN /\ indices' = ind
          /\ eval_indice' = st.eval
          /\ indice_cnt' = st.indice_cnt
          /\ reduce_cnt' = st.reduce_cnt
          /\ fold_count' = Cardinality(pts)
          /\ value' = Fold(fn, initial, pts, el, g)
  /\ pc' = "computed"
  /\ UNCHANGED <<err, inVars, redVars, warpIn, warpVars, warpCmp>>

ReduceNext == ReduceSum \/ Reduce \/ ReduceShape \/ DoReduce \/ Compute
NamedNext ==
  ReduceSum \/ ReduceProd \/ ReduceMax \/ ReduceMin
  \/ Reduce \/ ReduceShape \/ DoReduce \/ Compute

Spec == ReduceInit /\ [][ReduceNext]_vars
SpecNamed == NamedInit /\ [][NamedNext]_vars

\* ------------------------------------------------------------- WarpReduce
ToSize(x) == x % SizeModulus

\* idx >= (A->shape.size() - last_reduce_dim_num), idx converted to size_t
LaneCond(shp, k, i) == ToSize(i) >= ToSize(Len(shp) - k)

Zeros(k) == [j \in 1..k |-> 0]

WarpTmpIndexsKeepLane(ind, k) == ind \o Zeros(k - 1)
WarpTmpIndexs(ind, k) == SubSeq(ind, 1, Len(ind) - 1) \o Zeros(k)

WarpOutIndexs(ind) == Append(ind, 0)

LeadingShape(shp, k) == SubSeq(shp, 1, Len(shp) - k)

WarpInit ==
  /\ pc = "call"
  /\ op \in {"WarpReduceMax", "WarpReduceSum", "WarpReduceAvg"}
  /\ shape \in Shapes(1, MaxWarpRank)
  /\ last_reduce_dim_num \in 0..Len(shape)
  /\ axes = <<>> /\ keep_dims = FALSE /\ caller_initial = Undefined
  /\ DefaultCallState

\* entry of WarpReduce: Expr lane(1); int idx = A->shape.size() - 1
EnterWarpReduce(type) ==
  /\ pc = "call"
  /\ reduce_type' = type
  /\ lane' = 1
  /\ idx' = Len(shape) - 1
  /\ pc' = "lane_loop"
  /\ UNCHANGED <<err, inVars, redVars, cmpVars, warpIn, iters, shape_reads,
                 tmp_shape, out_shape, warpCmp>>

WarpReduceMax == op = "WarpReduceMax" /\ EnterWarpReduce("cinn_warp_reduce_max")
WarpReduceSum == op = "WarpReduceSum" /\ EnterWarpReduce("cinn_warp_reduce_sum")
WarpReduceAvg == op = "WarpReduceAvg" /\ EnterWarpReduce("cinn_warp_reduce_avg")

\* one iteration of the lane loop
WarpLaneIter ==
  /\ pc = "lane_loop"
  /\ LaneCond(shape, last_reduce_dim_num, idx)
  /\ \/ /\ idx >= 0 /\ idx < Len(shape)
        /\ lane' = lane * shape[idx + 1]
        /\ pc' = pc
        /\ UNCHANGED err
     \/ /\ ~(idx >= 0 /\ idx < Len(shape))
        /\ 0 - idx <= LoopCap
        /\ \/ /\ err' = "OutOfBoundsRead" /\ pc' = "crashed"
              /\ UNCHANGED lane
           \/ \E g \in GarbageExtents :
                /\ lane' = lane * g
                /\ pc' = pc
                /\ UNCHANGED err
  /\ shape_reads' = shape_reads \cup {idx}
  /\ idx' = idx - 1
  /\ iters' = iters + 1
  /\ UNCHANGED <<inVars, redVars, cmpVars, warpIn, reduce_type,
                 tmp_shape, out_shape, warpCmp>>

\* exit of the lane loop and the two Compute(...) declarations
WarpBuild ==
  /\ pc = "lane_loop"
  /\ ~LaneCond(shape, last_reduce_dim_num, idx)
  /\ tmp_shape' = Append(LeadingShape(shape, last_reduce_dim_num), WarpSize)
  /\ out_shape' = LeadingShape(shape, last_reduce_dim_num)
  /\ pc' = "built"
  /\ UNCHANGED <<err, inVars, redVars, cmpVars, warpIn, reduce_type, idx, lane,
                 iters, shape_reads, warpCmp>>

\* the compute lambda of tmp_out applied to one index tuple
WarpTmpOut ==
  /\ pc = "built" /\ which = ""
  /\ \E ind \in IndexTuples(tmp_shape) :
       LET t == WarpTmpIndexs(ind, last_reduce_dim_num)
       IN /\ indexs' = ind
          /\ tmp_indexs' = t
          /\ which' = "tmp_out"
          /\ IF Len(shape) = Len(t)
             THEN /\ call' = [offset |-> IndiceToAbsOffset(shape, t), lane |-> lane]
                  /\ UNCHANGED <<pc, err>>
             ELSE /\ err' = "ShapeMismatch" /\ pc' = "failed"
                  /\ UNCHANGED call
  /\ UNCHANGED <<inVars, redVars, cmpVars, warpIn, warpVars>>

\* the compute lambda of out applied to one index tuple
WarpOut ==
  /\ pc = "built" /\ which = ""
  /\ \E ind \in IndexTuples(out_shape) :
       /\ indexs' = ind
       /\ tmp_indexs' = WarpOutIndexs(ind)
       /\ which' = "out"
       /\ call' = NoCall
  /\ UNCHANGED <<pc, err, inVars, redVars, cmpVars, warpIn, warpVars>>

WarpNext ==
  WarpReduceMax \/ WarpReduceSum \/ WarpReduceAvg
  \/ WarpLaneIter \/ WarpBuild \/ WarpTmpOut \/ WarpOut

SpecWarp == WarpInit /\ [][WarpNext]_vars

\* ================================================================ claims
Rank == Len(shape)
Range(s) == {s[i] : i \in DOMAIN s}
Normalized == pc \in {"GetOutputShape", "DoReduce", "built", "computed", "crashed"}
Shaped == pc \in {"DoReduce", "built", "computed", "crashed"}

\* the reduced dimensions as the raw axis list denotes them
PyAxis(a) == IF a >= 0 THEN a ELSE a + Rank
DenotedAxes == IF axes = <<>> THEN 0..(Rank - 1) ELSE {PyAxis(axes[i]) : i \in DOMAIN axes}

\* C1: for a non-empty raw axis list whose entries all lie in [-ndim, ndim),
\* GetRealAxes returns a strictly ascending list (sorted, no value twice)
\* whose set of values is the Python-style interpretation of the raw list.
C1_SortedDuplicateFree ==
  (Normalized /\ axes # <<>>
     /\ \A i \in DOMAIN axes : axes[i] >= 0 - Rank /\ axes[i] < Rank)
  => /\ \A i, j \in DOMAIN real_axes : i < j => real_axes[i] < real_axes[j]
     /\ Range(real_axes) = DenotedAxes

\* C2: whenever GetRealAxes does not fail, the normalized axis list is
\* non-empty and every element a satisfies 0 <= a < ndim; the empty raw list
\* gives exactly 0, 1, ..., ndim-1.
C2_AxesWithinRank ==
  Normalized
  => /\ real_axes # <<>>
     /\ \A j \in DOMAIN real_axes : real_axes[j] >= 0 /\ real_axes[j] < Rank
     /\ axes = <<>> => real_axes = [i \in 1..Rank |-> i - 1]

\* C3: on a tensor of rank >= 1, Reduce fails with InvalidAxis, having built
\* no output tensor, exactly when some supplied axis is, after a := a + ndim
\* for a < 0, below 0 or above ndim; otherwise normalization raises nothing.
C3_InvalidAxisExactly ==
  (pc \notin {"call", "Reduce"} /\ Rank >= 1)
  => LET bad == \E i \in DOMAIN axes : PyAxis(axes[i]) < 0 \/ PyAxis(axes[i]) > Rank
     IN /\ bad <=> (pc = "failed" /\ err = "InvalidAxis")
        /\ bad => (~C /\ output_shapes = <<>>)
        /\ ~bad => (Normalized /\ err # "InvalidAxis" /\ err # "InvalidRank")

C3_Witness ==
  /\ pc = "failed" /\ err = "InvalidAxis"
  /\ Rank = 2 /\ axes = <<0, 3>>

NonReducedBefore(R, d) == Cardinality({e \in 0..(d - 1) : e \notin R})
ReducedBefore(R, d) == Cardinality({e \in 0..(d - 1) : e \in R})

\* C4: the output shape has, with keep_dims, ndim entries, 1 at the reduced
\* axes and the input size elsewhere; without keep_dims, the sizes of the
\* non-reduced dimensions in order, of rank ndim - |normalized axis list|,
\* or the shape [1] when every dimension is reduced; it is never empty.
C4_OutputShape ==
  Shaped
  => LET R == Range(real_axes)
         kept == {d \in 0..(Rank - 1) : d \notin R}
     IN /\ output_shapes # <<>>
        /\ keep_dims =>
             /\ Len(output_shapes) = Rank
             /\ \A i \in 1..Rank :
                  output_shapes[i] = IF (i - 1) \in R THEN 1 ELSE shape[i]
        /\ (~keep_dims /\ kept = {}) => output_shapes = <<1>>
        /\ (~keep_dims /\ kept # {}) =>
             /\ Len(output_shapes) = Rank - Len(real_axes)
             /\ \A d \in kept :
                  /\ NonReducedBefore(R, d) + 1 \in DOMAIN output_shapes
                  /\ output_shapes[NonReducedBefore(R, d) + 1] = shape[d + 1]

RECURSIVE SumElems(_, _)
SumElems(shp, S) ==
  IF S = {} THEN 0
  ELSE LET e == CHOOSE x \in S : TRUE
       IN Elem(shp, e) + SumElems(shp, S \ {e})

RECURSIVE Product(_)
Product(s) == IF s = <<>> THEN 1 ELSE Head(s) * Product(Tail(s))

\* the input elements whose non-reduced coordinates match the output index
Matching(D) ==
  {e \in IndexTuples(shape) :
     \A d \in 0..(Rank - 1) :
       d \notin D =>
         e[d + 1] = indices[(IF keep_dims THEN d ELSE NonReducedBefore(D, d)) + 1]}

\* C5: with the default identity 0, the value ReduceSum denotes at an output
\* index is the sum of the input elements whose non-reduced coordinates
\* match that index, each counted once; the fold domain is the product of
\* the reduced dimensions' extents.
C5_SumOfSlice ==
  (pc = "computed" /\ fn = "ReduceSum" /\ DenotedAxes \subseteq 0..(Rank - 1))
  => /\ value = SumElems(shape, Matching(DenotedAxes))
     /\ fold_count = Cardinality(Matching(DenotedAxes))

DefaultIdentity ==
  CASE op = "ReduceSum" -> Const(0)
    [] op = "ReduceProd" -> Const(1)
    [] OTHER -> Undefined

\* C6: each named reduction hands the facade its default identity only when
\* the caller supplies no initial value; a defined initial value supplied by
\* the caller is the identity handed on.
C6_InitialPassedThrough ==
  pc # "call"
  => initial = IF caller_initial.defined THEN caller_initial ELSE DefaultIdentity

\* C8: the input index tuple built by the compute function has length ndim;
\* slot i holds the next unused reduction variable if i is a reduced axis and
\* otherwise the output index at the position dimension i has in the output
\* shape; every position read lies below the output rank; indice_cnt
\* advances on a reduced dimension only when it is not squeezed.
C8_IndexReconstruction ==
  pc = "computed"
  => LET R == Range(real_axes)
         S == Range(squeeze_axes)
     IN /\ Len(eval_indice) = Rank
        /\ Len(indices) = Len(output_shapes)
        /\ \A d \in 0..(Rank - 1) :
             IF d \in R
             THEN /\ eval_indice[d + 1] = [kind |-> "reduce", n |-> ReducedBefore(R, d)]
                  /\ ReducedBefore(R, d) < Len(reduce_axes)
             ELSE /\ eval_indice[d + 1] =
                       [kind |-> "indice",
                        n |-> IF keep_dims THEN d ELSE NonReducedBefore(R, d)]
                  /\ eval_indice[d + 1].n < Len(output_shapes)
        /\ indice_cnt = Cardinality({d \in 0..(Rank - 1) : d \notin R \/ d \notin S})
        /\ S = IF keep_dims THEN {} ELSE R

C8_Witness ==
  /\ pc = "computed" /\ ~keep_dims
  /\ Rank = 2 /\ axes = <<0 - 2, 0>>
  /\ eval_indice[1].kind = "reduce" /\ eval_indice[2] = [kind |-> "indice", n |-> 0]
  /\ indices = <<1>>

\* C9: the reduction variables are in one-to-one correspondence with the
\* reduced input dimensions: reduce_cnt at the end of the loop equals the
\* number of variables, each variable fills exactly one slot, and the variable
\* in the slot of dimension d has the input's size along d as its extent.
C9_VariablesMatchSlots ==
  pc = "computed"
  => /\ reduce_cnt = Len(reduce_axes)
     /\ \A j \in DOMAIN reduce_axes :
          Cardinality({i \in DOMAIN eval_indice :
                         eval_indice[i] = [kind |-> "reduce", n |-> j - 1]}) = 1
     /\ \A i \in DOMAIN eval_indice :
          eval_indice[i].kind = "reduce" =>
            /\ eval_indice[i].n + 1 \in DOMAIN reduce_axes
            /\ reduce_axes[eval_indice[i].n + 1] = shape[i]

WarpK == last_reduce_dim_num
TrailingShape == SubSeq(shape, Rank - WarpK + 1, Rank)

\* C7: for 1 <= k < n, tmp_out has the n-k leading sizes followed by 32 and
\* out the n-k leading sizes; lane is the product of the k trailing sizes;
\* every call of tmp_out, at each of the 32 trailing positions, has lane
\* argument lane and the row-major offset of (leading indices, k zeros), a
\* multiple of lane; out reads tmp_out at its index with trailing index 0.
C7_WarpShapesAndCalls ==
  (pc = "built" /\ WarpK >= 1 /\ WarpK < Rank)
  => LET lead == [i \in 1..(Rank - WarpK) |-> shape[i]]
     IN /\ tmp_shape = lead \o <<32>>
        /\ out_shape = lead
        /\ lane = Product(TrailingShape)
        /\ which = "tmp_out" =>
             /\ Len(indexs) = Rank - WarpK + 1
             /\ tmp_indexs = [i \in 1..Rank |-> IF i <= Rank - WarpK THEN indexs[i] ELSE 0]
             /\ call.lane = Product(TrailingShape)
             /\ call.offset =
                  IndiceToAbsOffset(lead, [i \in 1..(Rank - WarpK) |-> indexs[i]])
                    * Product(TrailingShape)
             /\ call.offset % call.lane = 0
        /\ which = "out" =>
             /\ Len(indexs) = Rank - WarpK
             /\ tmp_indexs = indexs \o <<0>>
             /\ tmp_indexs \in IndexTuples(tmp_shape)

C7_Witness ==
  /\ pc = "built" /\ which = "tmp_out"
  /\ Rank = 3 /\ WarpK = 2
  /\ indexs = <<1, 31>>
  /\ call.lane = 4 /\ call.offset = 4

\* C10: for 0 <= k <= n the lane loop ends after exactly k iterations and
\* reads A->shape only at n-1 down to n-k, all inside [0, n).
C10_LaneLoopTerminates ==
  /\ \A i \in shape_reads : i >= 0 /\ i < Rank
  /\ (pc = "lane_loop" /\ iters = WarpK) => ~LaneCond(shape, WarpK, idx)
  /\ pc = "built" => (iters = WarpK /\ shape_reads = (Rank - WarpK)..(Rank - 1))
  /\ pc # "crashed"

====
